---- MODULE Spec2Model ----
(***************************************************************************)
(* A model of netflix-wrapped's two batch transforms:                      *)
(*   scripts/process_data.py          (load_viewing_data, calculate_stats) *)
(*   scripts/process_netflix_data.py  (process_netflix_data)               *)
(*                                                                         *)
(* Strings are sequences of lexical tokens: a token is one character       *)
(* (":", " ", "(", ")", a digit, a letter) or one of the words the code's  *)
(* patterns look for ("Season", "Episode", "_hook", "_primary", "Clip",    *)
(* "Teaser").  No token is a newline.                                      *)
(***************************************************************************)
EXTENDS Integers, Sequences, FiniteSets, Bags, TLC

VARIABLES
    title,   \* one raw Title cell
    norm1,   \* <<>> or <<its ShowName/IsEpisode columns (process_data.py)>>
    norm2,   \* <<>> or <<its show_info (process_netflix_data.py)>>
    input,   \* what the data folder holds: "no_folder", "no_file" or "file"
    rows,    \* the rows of ViewingActivity.csv read so far, as a bag
    out1,    \* <<>> or <<what process_data.main got from calculate_stats>>
    out2,    \* <<>> or <<what process_netflix_data returned or raised>>
    saved1,  \* <<>> or <<the content of wrapped_stats.json>>
    saved2,  \* <<>> or <<the content of recap_stats.json>>
    dates,   \* the dates of a date column, each a day number
    streak1, \* <<>> or <<max_streak of calculate_stats>>
    streak2, \* <<>> or <<longest_streak of process_netflix_data>>
    table,   \* the shows of a show column: the count of the i-th show
             \* met, in the order the shows are first met
    top1,    \* <<>> or <<top_shows of calculate_stats>>
    top2,    \* <<>> or <<top_shows of process_netflix_data>>
    pstats,  \* a stats dictionary
    pers1,   \* <<>> or <<determine_personality(pstats), process_data.py>>
    pers2    \* <<>> or <<determine_personality(pstats), process_netflix_data.py>>

titleVars == <<title, norm1, norm2>>

statVars == <<input, rows, out1, out2, saved1, saved2>>

streakVars == <<dates, streak1, streak2>>

topVars == <<table, top1, top2>>

persVars == <<pstats, pers1, pers2>>

vars == <<titleVars, statVars, streakVars, topVars, persVars>>

(***************************************************************************)
(* String helpers (Python's str.split, str.strip, int, "in").              *)
(***************************************************************************)
DigitVal == ("0" :> 0) @@ ("1" :> 1) @@ ("2" :> 2) @@ ("3" :> 3) @@ ("4" :> 4)
            @@ ("5" :> 5) @@ ("6" :> 6) @@ ("7" :> 7) @@ ("8" :> 8) @@ ("9" :> 9)

IsDigit(c) == c \in DOMAIN DigitVal

IsSpace(c) == c = " "

Min(S) == CHOOSE x \in S : \A y \in S : x <= y

Max(S) == CHOOSE x \in S : \A y \in S : y <= x

\* str.split(sep): the parts between the occurrences of sep, in order.
RECURSIVE Split(_, _)
Split(s, sep) ==
    LET at == {i \in 1..Len(s) : s[i] = sep}
    IN  IF at = {} THEN <<s>>
        ELSE <<SubSeq(s, 1, Min(at) - 1)>> \o Split(SubSeq(s, Min(at) + 1, Len(s)), sep)

\* str.strip(): leading and trailing whitespace removed.
RECURSIVE LStrip(_)
LStrip(s) == IF s # <<>> /\ IsSpace(Head(s)) THEN LStrip(Tail(s)) ELSE s

RECURSIVE RStrip(_)
RStrip(s) ==
    IF s # <<>> /\ IsSpace(s[Len(s)]) THEN RStrip(SubSeq(s, 1, Len(s) - 1)) ELSE s

Strip(s) == RStrip(LStrip(s))

\* sub in s
Contains(s, sub) ==
    \E i \in 1..(Len(s) - Len(sub) + 1) : SubSeq(s, i, i + Len(sub) - 1) = sub

\* int() of a run of digits.
RECURSIVE ToInt(_)
ToInt(ds) ==
    IF ds = <<>> THEN 0
    ELSE 10 * ToInt(SubSeq(ds, 1, Len(ds) - 1)) + DigitVal[ds[Len(ds)]]

\* Regex helpers: \s* and \d+ are greedy; each returns the position after the run.
RECURSIVE SkipSpaces(_, _)
SkipSpaces(s, i) == IF i <= Len(s) /\ IsSpace(s[i]) THEN SkipSpaces(s, i + 1) ELSE i

RECURSIVE SkipDigits(_, _)
SkipDigits(s, i) == IF i <= Len(s) /\ IsDigit(s[i]) THEN SkipDigits(s, i + 1) ELSE i

(***************************************************************************)
(* process_data.py: extract_show_name and the IsEpisode column.            *)
(***************************************************************************)
extract_show_name_first_part(ttl) == Strip(Split(ttl, ":")[1])

extract_show_name(ttl) == extract_show_name_first_part(ttl)

IsEpisodeColumn(ttl) == \E i \in 1..Len(ttl) : ttl[i] = ":"

(***************************************************************************)
(* process_netflix_data.py: extract_show_info.                             *)
(* An absent season or episode (None) is <<>>, a present one <<n>>.        *)
(***************************************************************************)
\* ":\s*Season\s*(\d+)" matches at position i.
SeasonAt(s, i) ==
    /\ s[i] = ":"
    /\ LET j == SkipSpaces(s, i + 1)
       IN  /\ j <= Len(s)
           /\ s[j] = "Season"
           /\ LET k == SkipSpaces(s, j + 1)
              IN  k <= Len(s) /\ IsDigit(s[k])

\* Where group 2 (the season digits) starts and where the match goes on after it.
SeasonDigitsStart(s, i) == SkipSpaces(s, SkipSpaces(s, i + 1) + 1)

SeasonDigitsEnd(s, i) == SkipDigits(s, SeasonDigitsStart(s, i))

\* "\(Episode\s*(\d+)\)" with no $ matches at position j.
EpisodeAnywhere(s, j) ==
    /\ j + 1 <= Len(s)
    /\ s[j] = "("
    /\ s[j + 1] = "Episode"
    /\ LET k == SkipSpaces(s, j + 2)
           e == SkipDigits(s, k)
       IN  e > k /\ e <= Len(s) /\ s[e] = ")"

\* "\(Episode\s*(\d+)\)$" matches at position j.
EpisodeAt(s, j) ==
    /\ j + 1 <= Len(s)
    /\ s[j] = "("
    /\ s[j + 1] = "Episode"
    /\ LET k == SkipSpaces(s, j + 2)
           e == SkipDigits(s, k)
       IN  e > k /\ e = Len(s) /\ s[e] = ")"

EpisodeDigits(s, j) ==
    LET k == SkipSpaces(s, j + 2) IN SubSeq(s, k, SkipDigits(s, k) - 1)

\* Group 1 were it greedy (.+): the last such colon.
GreedyGroupEnd(cands) == Max(cands)

\* Group 1 is lazy (.+?): the first colon, after at least one character, at
\* which the rest of the pattern matches.
LazyGroupEnd(cands) == Min(cands)

\* re.match(season_ep_pattern, title): <<>> for no match, else <<groups>>.
MatchSeasonEp(s) ==
    LET cands == {i \in 2..Len(s) : SeasonAt(s, i)}
    IN  IF cands = {} THEN <<>>
        ELSE LET i  == LazyGroupEnd(cands)
                 p  == SeasonDigitsEnd(s, i)
                 ep == {j \in p..Len(s) : EpisodeAt(s, j)}
             IN  <<[g1 |-> SubSeq(s, 1, i - 1),
                    g2 |-> SubSeq(s, SeasonDigitsStart(s, i), p - 1),
                    g3 |-> IF ep = {} THEN <<>> ELSE EpisodeDigits(s, Min(ep))]>>

\* "Clip \d+:" matches at the head of s: the length matched, or 0.
ClipLen(s) ==
    IF Len(s) >= 4 /\ s[1] = "Clip" /\ s[2] = " " /\ SkipDigits(s, 3) > 3
       /\ SkipDigits(s, 3) <= Len(s) /\ s[SkipDigits(s, 3)] = ":"
    THEN SkipDigits(s, 3) ELSE 0

\* "Teaser.*:" matches at the head of s (the .* is greedy: up to the last
\* colon): the length matched, or 0.
TeaserLen(s) ==
    LET at == {i \in 2..Len(s) : s[i] = ":"}
    IN  IF s # <<>> /\ s[1] = "Teaser" /\ at # {} THEN Max(at) ELSE 0

\* re.sub(r'_hook.*|_primary.*|Clip \d+:|Teaser.*:', '', title)
RECURSIVE CleanTitle(_)
CleanTitle(s) ==
    IF s = <<>> THEN <<>>
    ELSE IF s[1] \in {"_hook", "_primary"} THEN <<>>
    ELSE IF ClipLen(s) > 0 THEN CleanTitle(SubSeq(s, ClipLen(s) + 1, Len(s)))
    ELSE IF TeaserLen(s) > 0 THEN CleanTitle(SubSeq(s, TeaserLen(s) + 1, Len(s)))
    ELSE <<s[1]>> \o CleanTitle(Tail(s))

extract_show_info(ttl) ==
    LET m == MatchSeasonEp(ttl)
    IN  IF m # <<>>
        THEN [show       |-> Strip(m[1].g1),
              season     |-> <<ToInt(m[1].g2)>>,
              episode    |-> IF m[1].g3 # <<>> THEN <<ToInt(m[1].g3)>> ELSE <<>>,
              is_episode |-> TRUE]
        ELSE IF ~Contains(ttl, <<":", " ", "Season">>)
                /\ ~Contains(ttl, <<":", " ", "Episode">>)
        THEN [show       |-> Strip(CleanTitle(ttl)),
              season     |-> <<>>,
              episode    |-> <<>>,
              is_episode |-> FALSE]
        ELSE [show       |-> Strip(Split(ttl, ":")[1]),
              season     |-> <<>>,
              episode    |-> <<>>,
              is_episode |-> FALSE]

(***************************************************************************)
(* Rows and their derived columns.  A row of the CSV is                    *)
(*   [title, ts, dur, supp]: Title, Start Time (a parsed timestamp         *)
(*   [year, month, day, hour]), Duration and Supplemental Video Type (both *)
(*   strings; an empty cell, NaN, is <<>>).                                *)
(* The DataFrame is a bag of rows: the statistics modelled here depend on  *)
(* the order of the rows only through the order of tied value counts,      *)
(* which the library's sort leaves open (see SortedOrders).                *)
(***************************************************************************)
\* month_order cut short of its last name.
MonthsToNovember ==
    <<"January", "February", "March", "April", "May", "June", "July",
      "August", "September", "October", "November">>

month_order ==
    <<"January", "February", "March", "April", "May", "June",
      "July", "August", "September", "October", "November", "December">>

dow_order ==
    <<"Monday", "Tuesday", "Wednesday", "Thursday", "Friday", "Saturday", "Sunday">>

Morning == "Morning (6am-12pm)"

Afternoon == "Afternoon (12pm-6pm)"

Evening == "Evening (6pm-10pm)"

NightOwl == "Night Owl (10pm-6am)"

time_order == <<Morning, Afternoon, Evening, NightOwl>>

Range(f) == {f[i] : i \in DOMAIN f}

IsLeap(y) == (y % 4 = 0 /\ y % 100 # 0) \/ y % 400 = 0

DaysInMonth(y) ==
    <<31, IF IsLeap(y) THEN 29 ELSE 28, 31, 30, 31, 30, 31, 31, 30, 31, 30, 31>>

RECURSIVE DaysBeforeMonth(_, _)
DaysBeforeMonth(y, m) ==
    IF m = 1 THEN 0 ELSE DaysBeforeMonth(y, m - 1) + DaysInMonth(y)[m - 1]

\* Days from 2024-01-01 (a Monday) to the first day of year y >= 2024.
RECURSIVE DaysBeforeYear(_)
DaysBeforeYear(y) ==
    IF y <= 2024 THEN 0
    ELSE DaysBeforeYear(y - 1) + (IF IsLeap(y - 1) THEN 366 ELSE 365)

\* .dt.date, as the number of days since 2024-01-01.
DateOf(ts) == DaysBeforeYear(ts.year) + DaysBeforeMonth(ts.year, ts.month) + ts.day - 1

\* .dt.month_name(), .dt.day_name()
MonthNameOf(ts) == month_order[ts.month]

DayNameOf(ts) == dow_order[(DateOf(ts) % 7) + 1]

\* Bag helpers: df[mask], len(df), groupby(key).size().
\* df[col]
Column(B, col) == [r \in DOMAIN B |-> r[col]]

\* df[mask]
Filter(B, mask) == [r \in {x \in DOMAIN B : mask[x]} |-> B[r]]

Size(B) == BagCardinality(B)

GroupSize(B, key) ==
    [k \in {key[r] : r \in DOMAIN B} |-> Size(Filter(B, [r \in DOMAIN B |-> key[r] = k]))]

\* sorted(xs) of a set of integers.
RECURSIVE Sorted(_)
Sorted(S) == IF S = {} THEN <<>> ELSE <<Min(S)>> \o Sorted(S \ {Min(S)})

\* Python's order on strings, by the code point of each token's first
\* character ("_primary" after "_hook").
CodePoint ==
    (" " :> 32) @@ ("(" :> 40) @@ (")" :> 41) @@ ("0" :> 48) @@ ("1" :> 49)
    @@ ("2" :> 50) @@ ("3" :> 51) @@ ("4" :> 52) @@ ("5" :> 53) @@ ("6" :> 54)
    @@ ("7" :> 55) @@ ("8" :> 56) @@ ("9" :> 57) @@ (":" :> 58) @@ ("Clip" :> 67)
    @@ ("Episode" :> 69) @@ ("Season" :> 83) @@ ("Teaser" :> 84) @@ ("_hook" :> 95)
    @@ ("_primary" :> 96) @@ ("a" :> 97) @@ ("b" :> 98) @@ ("x" :> 120)

RECURSIVE StrLess(_, _)
StrLess(x, y) ==
    IF y = <<>> THEN FALSE
    ELSE IF x = <<>> THEN TRUE
    ELSE IF Head(x) = Head(y) THEN StrLess(Tail(x), Tail(y))
    ELSE CodePoint[Head(x)] < CodePoint[Head(y)]

\* The order of a groupby([date, show]) index.
KeyLess(k1, k2) == k1[1] < k2[1] \/ (k1[1] = k2[1] /\ StrLess(k1[2], k2[2]))

\* Series.idxmax() over such an index: the first of the largest entries.
GroupIdxMax(g) ==
    CHOOSE k \in DOMAIN g :
        /\ \A j \in DOMAIN g : g[j] <= g[k]
        /\ \A j \in DOMAIN g : g[j] = g[k] /\ j # k => KeyLess(k, j)

\* The last key with the largest value.
LastMax(order, f) ==
    order[Max({i \in 1..Len(order) : \A j \in 1..Len(order) : f[order[j]] <= f[order[i]]})]

\* Series.idxmax() and max(dict, key=dict.get) over keys kept in the order
\* `order`: the first key with the largest value.
FirstMax(order, f) ==
    order[Min({i \in 1..Len(order) : \A j \in 1..Len(order) : f[order[j]] <= f[order[i]]})]

\* series.reindex(order, fill_value=0).to_dict()
Reindex(series, order) ==
    [k \in Range(order) |-> IF k \in DOMAIN series THEN series[k] ELSE 0]

\* {k: int(series.get(k, 0)) for k in order}
DictWithDefault(series, order) ==
    [k \in Range(order) |-> IF k \in DOMAIN series THEN series[k] ELSE 0]

(***************************************************************************)
(* Ranking shows by count.  Series.sort_values(ascending=False), which     *)
(* value_counts() also ends with, uses the library's default sort, which   *)
(* is not stable: the order of tied shows is any order.                    *)
(***************************************************************************)
RECURSIVE Perms(_)
Perms(S) ==
    IF S = {} THEN {<<>>}
    ELSE UNION {{<<x>> \o p : p \in Perms(S \ {x})} : x \in S}

RECURSIVE SortedFrom(_, _)
SortedFrom(counts, left) ==
    IF left = {} THEN {<<>>}
    ELSE LET top  == Max({counts[x] : x \in left})
             tied == {x \in left : counts[x] = top}
         IN  {p \o q : p \in Perms(tied), q \in SortedFrom(counts, left \ tied)}

\* Every index order a descending sort of the series can produce.
SortedOrders(counts) == SortedFrom(counts, DOMAIN counts)

TopN == 10

\* No .head(10): every show.
HeadAll(order) == order

\* .head(10)
Head10(order) == SubSeq(order, 1, IF Len(order) < TopN THEN Len(order) ELSE TopN)

\* [{'title': show, 'count': int(count)} for show, count in ....head(10).items()]
TopShows(order, counts) ==
    [i \in 1..Len(Head10(order)) |-> [title |-> order[i], count |-> counts[order[i]]]]

(***************************************************************************)
(* The streak loops.                                                       *)
(***************************************************************************)
\* The maximum taken before current_streak is incremented.
StreakMaxBeforeIncrement(mx, cur) == IF cur - 1 > mx THEN cur - 1 ELSE mx

\* max(max_streak, current_streak)
StreakMax(mx, cur) == IF cur > mx THEN cur ELSE mx

\* process_data.py: for i in range(1, len(unique_dates)), with i one-based.
RECURSIVE CalcStreakLoop(_, _, _, _)
CalcStreakLoop(ds, i, current_streak, max_streak) ==
    IF i > Len(ds) THEN max_streak
    ELSE IF ds[i] - ds[i - 1] = 1
    THEN CalcStreakLoop(ds, i + 1, current_streak + 1,
                        StreakMax(max_streak, current_streak + 1))
    ELSE CalcStreakLoop(ds, i + 1, 1, max_streak)

calc_longest_streak(unique_dates) == CalcStreakLoop(unique_dates, 2, 1, 1)

\* process_netflix_data.py: for i in range(1, len(active_dates)).
RECURSIVE ProcStreakLoop(_, _, _, _)
ProcStreakLoop(ds, i, current_streak, longest_streak) ==
    IF i > Len(ds) THEN longest_streak
    ELSE IF ds[i] - ds[i - 1] = 1
    THEN ProcStreakLoop(ds, i + 1, current_streak + 1,
                        StreakMax(longest_streak, current_streak + 1))
    ELSE ProcStreakLoop(ds, i + 1, 1, longest_streak)

proc_longest_streak(active_dates) == ProcStreakLoop(active_dates, 2, 1, 1)

(***************************************************************************)
(* Personality rules.                                                      *)
(***************************************************************************)
RECURSIVE SumOver(_, _)
SumOver(f, S) ==
    IF S = {} THEN 0
    ELSE LET k == CHOOSE x \in S : TRUE IN f[k] + SumOver(f, S \ {k})

\* sum(d.values())
SumValues(f) == SumOver(f, DOMAIN f)

\* word in label, for the words the rules look for in the time-bucket labels.
InLabel(word, label) == <<word, label>> \in {<<"Night", NightOwl>>, <<"Morning", Morning>>}

Persona(t, d) == [type |-> t, description |-> d]

CasualViewer1 == Persona("The Casual Viewer", "You enjoy Netflix at a comfortable pace.")

\* process_data.py.  estimated_hours is kept in tenths of an hour.
calc_determine_personality(stats) ==
    LET hours     == stats.estimated_hours
        binges    == stats.binge_sessions
        peak_time == stats.peak_time
        streak    == stats.longest_streak
    IN  IF hours > 5000
        THEN Persona("The Streaming Champion",
                     "Netflix might as well be your second home. You have seen it ALL.")
        ELSE IF binges > 50
        THEN Persona("The Binge Master",
                     "One more episode? Make that ten. Sleep is optional when the plot thickens.")
        ELSE IF InLabel("Night", peak_time)
        THEN Persona("The Night Owl",
                     "The best shows come out at night. Or maybe you just lost track of time again.")
        ELSE IF streak > 30
        THEN Persona("The Devoted Streamer",
                     "Rain or shine, you never miss a day. Netflix is part of your daily routine.")
        ELSE IF hours > 2000
        THEN Persona("The Enthusiast",
                     "You know what you like and you are not afraid to watch it all.")
        ELSE IF InLabel("Morning", peak_time)
        THEN Persona("The Early Bird", "Coffee and Netflix? You start your days right.")
        ELSE CasualViewer1

CasualViewer2 ==
    Persona("The Casual Viewer", "You watch on your own terms. No algorithm can define you.")

\* personalities.append(p) when cond holds
AppendIf(cond, p) == IF cond THEN <<p>> ELSE <<>>

\* return personalities[-1]
PickLast(personalities) == personalities[Len(personalities)]

\* return personalities[0]
PickPersonality(personalities) == personalities[1]

\* process_netflix_data.py.  night_ratio > 0.5 and weekend_ratio > 0.4 are
\* compared as the integer inequalities they amount to.
proc_determine_personality(stats) ==
    LET night_pct      == stats.time_categories[NightOwl]
        sum_time       == SumValues(stats.time_categories)
        total_time     == IF sum_time = 0 THEN 1 ELSE sum_time
        weekend_count  == stats.day_of_week["Saturday"] + stats.day_of_week["Sunday"]
        sum_dow        == SumValues(stats.day_of_week)
        total_dow      == IF sum_dow = 0 THEN 1 ELSE sum_dow
        binge_sessions == stats.binge_sessions
        streak         == stats.longest_streak
        unique_shows   == stats.unique_shows
        movies         == stats.movies_watched
        episodes       == stats.episodes_watched
        found ==
            AppendIf(unique_shows > 100,
                Persona("The Plot Twist Addict",
                        "New show? Sign me up. Your watchlist is basically a buffet."))
            \o AppendIf(streak > 20 /\ binge_sessions > 40,
                Persona("The Marathon Runner",
                        "Consistency is your middle name. Rain or shine, you show up for your shows."))
            \o AppendIf(2 * night_pct > total_time,
                Persona("The After Hours Explorer",
                        "The world sleeps, you stream. Some stories just hit different at 2am."))
            \o AppendIf(binge_sessions > 50,
                Persona("The Serial Chiller",
                        "One episode is never enough. You don't watch shows, you experience them."))
            \o AppendIf(movies > 150 /\ episodes > 400,
                Persona("The Couch Critic",
                        "Movies, series, documentaries - you appreciate it all. A true connoisseur."))
            \o AppendIf(5 * weekend_count > 2 * total_dow,
                Persona("The Weekend Wanderer",
                        "Saturdays and Sundays are sacred. Your couch knows what's up."))
            \o AppendIf(stats.active_days > 200,
                Persona("The Steady Streamer",
                        "You've made streaming a lifestyle. Netflix is basically a roommate at this point."))
        personalities == IF found = <<>> THEN <<CasualViewer2>> ELSE found
    IN  PickPersonality(personalities)

(***************************************************************************)
(* process_data.py: calculate_stats.                                       *)
(***************************************************************************)
\* df[col] = ... : every row r gains the columns f(r).
WithColumns(B, f) ==
    [y \in {r @@ f[r] : r \in DOMAIN B} |->
        B[CHOOSE r \in DOMAIN B : \A c \in DOMAIN r : r[c] = y[c]]]

\* load_viewing_data: the columns derived from Date and Title.
load_viewing_data(csv) ==
    WithColumns(csv, [r \in DOMAIN csv |->
        [Year      |-> r.ts.year,
         MonthName |-> MonthNameOf(r.ts),
         DayOfWeek |-> DayNameOf(r.ts),
         Hour      |-> r.ts.hour,
         ShowName  |-> extract_show_name(r.title),
         IsEpisode |-> IsEpisodeColumn(r.title)]])

\* round(len(df) * 0.75, 1), in tenths of an hour: 7.5 per row, a half
\* rounded to the even tenth.
EstimatedHours(n) ==
    IF n % 2 = 0 THEN (15 * n) \div 2
    ELSE LET lo == (15 * n - 1) \div 2 IN IF lo % 2 = 0 THEN lo ELSE lo + 1

CalcBingeThreshold == 3

\* daily_shows[daily_shows > 3]
CalcBingesAbove(daily_shows) ==
    [k \in {x \in DOMAIN daily_shows : daily_shows[x] > CalcBingeThreshold}
        |-> daily_shows[k]]

\* daily_shows[daily_shows >= 3]
CalcBinges(daily_shows) ==
    [k \in {x \in DOMAIN daily_shows : daily_shows[x] >= CalcBingeThreshold}
        |-> daily_shows[k]]

\* df.groupby([df['Date'].dt.date, 'ShowName']).size()
CalcDailyShows(df) == GroupSize(df, [r \in DOMAIN df |-> <<DateOf(r.ts), r.ShowName>>])

\* monthly.reindex(month_order, fill_value=0).to_dict()
CalcMonthly(df) == Reindex(GroupSize(df, Column(df, "MonthName")), month_order)

CalcDayOfWeek(df) == Reindex(GroupSize(df, Column(df, "DayOfWeek")), dow_order)

CalcTimeCatsGap(df) ==
    (Morning :> Size(Filter(df, [r \in DOMAIN df |-> r.Hour >= 6 /\ r.Hour < 12])))
    @@ (Afternoon :> Size(Filter(df, [r \in DOMAIN df |-> r.Hour >= 12 /\ r.Hour < 18])))
    @@ (Evening :> Size(Filter(df, [r \in DOMAIN df |-> r.Hour >= 18 /\ r.Hour < 22])))
    @@ (NightOwl :> Size(Filter(df, [r \in DOMAIN df |-> r.Hour > 22 \/ r.Hour < 6])))

CalcTimeCats(df) ==
    (Morning :> Size(Filter(df, [r \in DOMAIN df |-> r.Hour >= 6 /\ r.Hour < 12])))
    @@ (Afternoon :> Size(Filter(df, [r \in DOMAIN df |-> r.Hour >= 12 /\ r.Hour < 18])))
    @@ (Evening :> Size(Filter(df, [r \in DOMAIN df |-> r.Hour >= 18 /\ r.Hour < 22])))
    @@ (NightOwl :> Size(Filter(df, [r \in DOMAIN df |-> r.Hour >= 22 \/ r.Hour < 6])))

\* `order` is the index order value_counts() returned.
calculate_stats(df0, year, order) ==
    LET df == Filter(df0, [r \in DOMAIN df0 |-> r.Year = year])
    IN  IF df = EmptyBag THEN [kind |-> "error"]
        ELSE
        LET show_counts  == GroupSize(df, Column(df, "ShowName"))
            top_shows    == TopShows(order, show_counts)
            monthly      == CalcMonthly(df)
            dow_counts   == CalcDayOfWeek(df)
            time_cats    == CalcTimeCats(df)
            daily_shows  == CalcDailyShows(df)
            binges       == CalcBinges(daily_shows)
            has_binge    == DOMAIN binges # {}
            unique_dates == Sorted({DateOf(r.ts) : r \in DOMAIN df})
            base ==
                [total_titles_watched |-> Size(df),
                 unique_shows         |-> Cardinality(DOMAIN show_counts),
                 year                 |-> year,
                 estimated_hours      |-> EstimatedHours(Size(df)),
                 top_shows            |-> top_shows,
                 number_one_show      |-> top_shows[1].title,
                 number_one_count     |-> top_shows[1].count,
                 monthly_breakdown    |-> monthly,
                 peak_month           |-> FirstMax(month_order, monthly),
                 peak_month_count     |-> monthly[FirstMax(month_order, monthly)],
                 day_of_week          |-> dow_counts,
                 favorite_day         |-> FirstMax(dow_order, dow_counts),
                 favorite_day_count   |-> dow_counts[FirstMax(dow_order, dow_counts)],
                 time_categories      |-> time_cats,
                 peak_time            |-> FirstMax(time_order, time_cats),
                 binge_sessions       |-> Cardinality(DOMAIN binges),
                 biggest_binge        |-> IF has_binge THEN binges[GroupIdxMax(binges)] ELSE 0,
                 biggest_binge_show   |-> IF has_binge THEN <<GroupIdxMax(binges)[2]>> ELSE <<>>,
                 biggest_binge_date   |-> IF has_binge THEN <<GroupIdxMax(binges)[1]>> ELSE <<>>,
                 longest_streak       |-> calc_longest_streak(unique_dates),
                 active_days          |-> Len(unique_dates)]
        IN  [kind |-> "stats", stats |-> base,
             personality |-> calc_determine_personality(base)]

\* main: 2025 if 2025 in available_years else max(y for y in available_years
\* if y <= current_year); <<>> when that max() has nothing to choose from.
TargetYear(available_years, current_year) ==
    IF 2025 \in available_years THEN <<2025>>
    ELSE IF {y \in available_years : y <= current_year} = {} THEN <<>>
    ELSE <<Max({y \in available_years : y <= current_year})>>

(***************************************************************************)
(* process_netflix_data.py: parse_duration and process_netflix_data.       *)
(***************************************************************************)
\* int(part) raises unless part is a run of digits.
IsInt(part) == part # <<>> /\ \A i \in 1..Len(part) : IsDigit(part[i])

parse_duration(duration_str) ==
    IF duration_str = <<>> THEN 0
    ELSE LET parts == Split(duration_str, ":")
         IN  IF Len(parts) = 3
             THEN IF IsInt(parts[1]) /\ IsInt(parts[2]) /\ IsInt(parts[3])
                  THEN ToInt(parts[1]) * 3600 + ToInt(parts[2]) * 60 + ToInt(parts[3])
                  ELSE 0
             ELSE IF Len(parts) = 2
             THEN IF IsInt(parts[1]) /\ IsInt(parts[2])
                  THEN ToInt(parts[1]) * 60 + ToInt(parts[2])
                  ELSE 0
             ELSE 0

get_time_category(hour) ==
    IF 6 <= hour /\ hour < 12 THEN Morning
    ELSE IF 12 <= hour /\ hour < 18 THEN Afternoon
    ELSE IF 18 <= hour /\ hour < 22 THEN Evening
    ELSE NightOwl

MinSeconds == 60

ProcBingeThreshold == 4

\* df_meaningful = df[df['Duration_Seconds'] >= 60]
Meaningful(df) == Filter(df, [r \in DOMAIN df |-> r.Duration_Seconds >= MinSeconds])

\* df_main: the rows of 2025 with a positive duration, of at least a
\* minute, that are not supplemental, with their derived columns.
MainRows(csv) ==
    LET parsed == WithColumns(csv, [r \in DOMAIN csv |->
                      [Duration_Seconds |-> parse_duration(r.dur)]])
        of2025 == Filter(parsed, [r \in DOMAIN parsed |-> r.ts.year = 2025])
        df     == Filter(of2025, [r \in DOMAIN of2025 |-> r.Duration_Seconds > 0])
        df_meaningful == Meaningful(df)
        main   == Filter(df_meaningful, [r \in DOMAIN df_meaningful |-> r.supp = <<>>])
    IN  WithColumns(main, [r \in DOMAIN main |->
            LET show_info == extract_show_info(r.title)
            IN  [Show         |-> show_info.show,
                 Is_Episode   |-> show_info.is_episode,
                 Hour         |-> r.ts.hour,
                 DayOfWeek    |-> DayNameOf(r.ts),
                 Month        |-> MonthNameOf(r.ts),
                 Date         |-> DateOf(r.ts),
                 TimeCategory |-> get_time_category(r.ts.hour)]])

\* df_main[df_main['Is_Episode']].groupby(['Date', 'Show']).size()
ProcDailyShowCounts(df_main) ==
    LET episodes == Filter(df_main, Column(df_main, "Is_Episode"))
    IN  GroupSize(episodes, [r \in DOMAIN episodes |-> <<r.Date, r.Show>>])

ProcMonthly(df_main) ==
    DictWithDefault(GroupSize(df_main, Column(df_main, "Month")), month_order)

ProcDayOfWeek(df_main) ==
    DictWithDefault(GroupSize(df_main, Column(df_main, "DayOfWeek")), dow_order)

ProcTimeCats(df_main) ==
    LET time_cats == GroupSize(df_main, Column(df_main, "TimeCategory"))
        get(k)    == IF k \in DOMAIN time_cats THEN time_cats[k] ELSE 0
    IN  (Morning :> get(Morning)) @@ (Afternoon :> get(Afternoon))
        @@ (Evening :> get(Evening)) @@ (NightOwl :> get(NightOwl))

\* The statistics of df_main; `order` is the index order of show_count after
\* sort_values.  With no row left in df_main, min(active_dates) raises
\* ValueError.
process_netflix_data(df_main, order) ==
        IF df_main = EmptyBag THEN [kind |-> "raised"]
        ELSE
        LET show_count         == GroupSize(df_main, Column(df_main, "Show"))
            top_shows          == TopShows(order, show_count)
            monthly_breakdown  == ProcMonthly(df_main)
            day_of_week        == ProcDayOfWeek(df_main)
            time_categories    == ProcTimeCats(df_main)
            active_dates       == Sorted({r.Date : r \in DOMAIN df_main})
            daily_show_counts  == ProcDailyShowCounts(df_main)
            has_groups         == DOMAIN daily_show_counts # {}
            biggest_binge      ==
                IF has_groups THEN daily_show_counts[GroupIdxMax(daily_show_counts)] ELSE 0
            base ==
                [year                 |-> 2025,
                 total_titles_watched |-> Size(df_main),
                 unique_shows         |-> Cardinality(DOMAIN show_count),
                 total_seconds        |-> SumOver([r \in DOMAIN df_main |->
                                              df_main[r] * r.Duration_Seconds],
                                              DOMAIN df_main),
                 number_one_show      |-> top_shows[1].title,
                 number_one_count     |-> top_shows[1].count,
                 peak_month           |-> FirstMax(month_order, monthly_breakdown),
                 peak_month_count     |->
                     monthly_breakdown[FirstMax(month_order, monthly_breakdown)],
                 favorite_day         |-> FirstMax(dow_order, day_of_week),
                 favorite_day_count   |-> day_of_week[FirstMax(dow_order, day_of_week)],
                 longest_streak       |-> proc_longest_streak(active_dates),
                 binge_sessions       |->
                     Cardinality({k \in DOMAIN daily_show_counts :
                                     daily_show_counts[k] >= ProcBingeThreshold}),
                 biggest_binge        |-> biggest_binge,
                 biggest_binge_show   |->
                     IF has_groups /\ biggest_binge >= ProcBingeThreshold
                     THEN GroupIdxMax(daily_show_counts)[2] ELSE <<>>,
                 active_days          |-> Len(active_dates),
                 peak_time            |-> FirstMax(time_order, time_categories),
                 top_shows            |-> top_shows,
                 monthly_breakdown    |-> monthly_breakdown,
                 day_of_week          |-> day_of_week,
                 time_categories      |-> time_categories,
                 movies_watched       |-> Size(Filter(df_main, [r \in DOMAIN df_main |-> ~r.Is_Episode])),
                 episodes_watched     |-> Size(Filter(df_main, Column(df_main, "Is_Episode")))]
        IN  [kind |-> "stats", stats |-> base,
             personality |-> proc_determine_personality(base)]

(***************************************************************************)
(* The titles checked: every concatenation of at most MaxSegs segments.    *)
(***************************************************************************)
MaxSegs == 4

Segments ==
    { <<"a">>, <<" ">>, <<":">>, <<"Season">>,
      <<":", " ", "Season", " ", "4">>, <<"(", "Episode", " ", "1", ")">>,
      <<"Episode">>, <<"_hook">> }

RECURSIVE Concats(_)
Concats(n) ==
    IF n = 0 THEN {<<>>}
    ELSE Concats(n - 1) \cup {t \o s : t \in Concats(n - 1), s \in Segments}

\* An empty CSV cell is read as NaN, never as the empty string.
Titles(n) == Concats(n) \ {<<>>}

(***************************************************************************)
(* The title normalizers applied to one raw title.                         *)
(***************************************************************************)
TitleIdle == title = <<>> /\ norm1 = <<>> /\ norm2 = <<>>

StatIdle ==
    /\ input = "no_folder" /\ rows = EmptyBag
    /\ out1 = <<>> /\ out2 = <<>> /\ saved1 = <<>> /\ saved2 = <<>>

StreakIdle == dates = {} /\ streak1 = <<>> /\ streak2 = <<>>

TopIdle == table = <<>> /\ top1 = <<>> /\ top2 = <<>>

PersIdle == pstats = <<>> /\ pers1 = <<>> /\ pers2 = <<>>

TitleInit ==
    /\ title \in Titles(MaxSegs)
    /\ norm1 = <<>>
    /\ norm2 = <<>>
    /\ StatIdle /\ StreakIdle /\ TopIdle /\ PersIdle

\* load_viewing_data: the ShowName and IsEpisode columns of one row.
LoadTitle ==
    /\ norm1 = <<>>
    /\ norm1' = <<[show |-> extract_show_name(title),
                   is_episode |-> IsEpisodeColumn(title)]>>
    /\ UNCHANGED <<title, norm2, statVars, streakVars, topVars, persVars>>

\* process_netflix_data: the show_info column of one row.
ShowInfo ==
    /\ norm2 = <<>>
    /\ norm2' = <<extract_show_info(title)>>
    /\ UNCHANGED <<title, norm1, statVars, streakVars, topVars, persVars>>

TitleNext == LoadTitle \/ ShowInfo

SpecTitle == TitleInit /\ [][TitleNext]_vars

(***************************************************************************)
(* The viewing histories checked: at most MaxRows rows, each one of        *)
(* SampleRows.                                                             *)
(***************************************************************************)
MaxRows == 5

SampleTitles == {<<"a">>, <<"b", ":", " ", "Season", " ", "4">>}

\* Friday 2025-01-31 08:xx and Saturday 2025-02-01 23:xx.
SampleTimes ==
    {[year |-> 2025, month |-> 1, day |-> 31, hour |-> 8],
     [year |-> 2025, month |-> 2, day |-> 1, hour |-> 23]}

OneMinute == <<"0", ":", "0", "1", ":", "0", "0">>

\* <<Duration, Supplemental Video Type>> of the rows the filters of
\* process_netflix_data drop: 59 seconds; a malformed duration; a trailer.
UnwantedQualities ==
    {<<<<"0", ":", "0", "0", ":", "5", "9">>, <<>>>>,
     <<<<"0", ":", "x", ":", "0", "0">>, <<>>>>,
     <<OneMinute, <<"T", "R", "A", "I", "L", "E", "R">>>>}

\* Every title at every time for a minute, and the episode title at every
\* time with each unwanted quality.
SampleRows ==
    {[title |-> t, ts |-> s, dur |-> OneMinute, supp |-> <<>>] :
        t \in SampleTitles, s \in SampleTimes}
    \cup {[title |-> <<"b", ":", " ", "Season", " ", "4">>, ts |-> s,
            dur |-> q[1], supp |-> q[2]] :
            s \in SampleTimes, q \in UnwantedQualities}

\* datetime.now().year
CurrentYear == 2026

Inputs == {"no_folder", "no_file", "file"}

Init ==
    /\ input \in Inputs
    /\ rows = EmptyBag
    /\ out1 = <<>> /\ out2 = <<>>
    /\ saved1 = <<>> /\ saved2 = <<>>
    /\ TitleIdle /\ StreakIdle /\ TopIdle /\ PersIdle

\* One more row of the CSV, when there is one.
ReadRow(r) ==
    /\ input = "file"
    /\ out1 = <<>> /\ out2 = <<>>
    /\ Size(rows) < MaxRows
    /\ rows' = rows (+) SetToBag({r})
    /\ UNCHANGED <<input, out1, out2, saved1, saved2,
                   titleVars, streakVars, topVars, persVars>>

\* What process_data.main prints when data/ holds no CSV.
NoCsvMessage == "No CSV files found in data/ folder."

\* What process_netflix_data prints when the file is not there, and what the
\* entry point prints on its None.
NotFoundMessage == "ViewingActivity.csv not found"

FailedMessage == "Failed to process data"

\* save_stats(stats, output_file): main writes whatever calculate_stats
\* returned.
MainSaved(stats) == <<stats>>

\* "if stats:" of the entry point: a returned dictionary is written, None is
\* not.
ProcSavedAlways(stats) == <<stats>>

ProcSaved(stats) == IF stats.kind = "stats" THEN <<stats>> ELSE <<>>

\* process_data.main. glob of a missing folder, or of one with no CSV, is
\* empty: main prints and returns. Otherwise it loads the file, picks the
\* target year (max() of no year raises ValueError), calls calculate_stats
\* and saves what it returned.
CalculateStats ==
    /\ out1 = <<>>
    /\ IF input # "file"
       THEN /\ out1' = <<[kind |-> "no_input", printed |-> <<NoCsvMessage>>]>>
            /\ saved1' = saved1
       ELSE LET df0         == load_viewing_data(rows)
                target_year == TargetYear({r.Year : r \in DOMAIN df0}, CurrentYear)
                df          == IF target_year = <<>> THEN df0
                               ELSE Filter(df0, [r \in DOMAIN df0 |-> r.Year = target_year[1]])
            IN  IF target_year = <<>>
                THEN /\ out1' = <<[kind |-> "raised"]>>
                     /\ saved1' = saved1
                ELSE \E order \in SortedOrders(GroupSize(df, Column(df, "ShowName"))) :
                       LET stats == calculate_stats(df0, target_year[1], order)
                       IN  /\ out1' = <<stats>>
                           /\ saved1' = MainSaved(stats)
    /\ UNCHANGED <<input, rows, out2, saved2, titleVars, streakVars, topVars, persVars>>

\* The entry point of process_netflix_data.py. iterdir() of a missing folder
\* raises FileNotFoundError; a folder without the file makes
\* process_netflix_data print and return None; otherwise the statistics are
\* computed. The entry point writes the result if it is truthy.
ProcessNetflixData ==
    /\ out2 = <<>>
    /\ IF input = "no_folder"
       THEN /\ out2' = <<[kind |-> "raised"]>>
            /\ saved2' = saved2
       ELSE IF input = "no_file"
       THEN LET stats == [kind |-> "no_input",
                          printed |-> <<NotFoundMessage, FailedMessage>>]
            IN  /\ out2' = <<stats>>
                /\ saved2' = ProcSaved(stats)
       ELSE LET df_main == MainRows(rows)
            IN  \E order \in SortedOrders(GroupSize(df_main, Column(df_main, "Show"))) :
                  LET stats == process_netflix_data(df_main, order)
                  IN  /\ out2' = <<stats>>
                      /\ saved2' = IF stats.kind = "raised" THEN saved2
                                   ELSE ProcSaved(stats)
    /\ UNCHANGED <<input, rows, out1, saved1, titleVars, streakVars, topVars, persVars>>

Next ==
    \/ \E r \in SampleRows : ReadRow(r)
    \/ CalculateStats
    \/ ProcessNetflixData

Spec == Init /\ [][Next]_vars

(***************************************************************************)
(* The streak loops applied to one date column: any non-empty set of the   *)
(* days 1..MaxDay.                                                         *)
(***************************************************************************)
MaxDay == 8

StreakInit ==
    /\ dates \in (SUBSET (1..MaxDay)) \ {{}}
    /\ streak1 = <<>>
    /\ streak2 = <<>>
    /\ TitleIdle /\ StatIdle /\ TopIdle /\ PersIdle

\* calculate_stats: sorted(unique dates), then the loop.
CalcStreak ==
    /\ streak1 = <<>>
    /\ streak1' = <<calc_longest_streak(Sorted(dates))>>
    /\ UNCHANGED <<dates, streak2, titleVars, statVars, topVars, persVars>>

\* process_netflix_data: sorted(unique dates), then the loop.
ProcStreak ==
    /\ streak2 = <<>>
    /\ streak2' = <<proc_longest_streak(Sorted(dates))>>
    /\ UNCHANGED <<dates, streak1, titleVars, statVars, topVars, persVars>>

StreakNext == CalcStreak \/ ProcStreak

SpecStreak == StreakInit /\ [][StreakNext]_vars

(***************************************************************************)
(* The ranking applied to one show column.  The columns checked meet their *)
(* shows in the order of their counts, falling or rising, with each count  *)
(* from 1 to MaxCount shared by at most two shows.                         *)
(***************************************************************************)
MaxCount == 6

TieSizes == {0, 1, 2}

Repeat(x, n) == [i \in 1..n |-> x]

RECURSIVE Falling(_)
Falling(k) ==
    IF k = 0 THEN {<<>>}
    ELSE {Repeat(k, n) \o t : n \in TieSizes, t \in Falling(k - 1)}

Reverse(t) == [i \in 1..Len(t) |-> t[Len(t) + 1 - i]]

TopTables(k) == (Falling(k) \cup {Reverse(t) : t \in Falling(k)}) \ {<<>>}

TopInit ==
    /\ table \in TopTables(MaxCount)
    /\ top1 = <<>>
    /\ top2 = <<>>
    /\ TitleIdle /\ StatIdle /\ StreakIdle /\ PersIdle

\* The show column's counts: show i is the i-th show met.
ShowCounts == [i \in 1..Len(table) |-> table[i]]

\* calculate_stats: value_counts(), head(10), number_one_show.
CalcTopShows ==
    /\ top1 = <<>> /\ top2 = <<>>
    /\ \E order \in SortedOrders(ShowCounts) :
         LET top_shows == TopShows(order, ShowCounts)
         IN  top1' = <<[top_shows |-> top_shows,
                        number_one_show |-> top_shows[1].title,
                        number_one_count |-> top_shows[1].count]>>
    /\ UNCHANGED <<table, top2, titleVars, statVars, streakVars, persVars>>

\* process_netflix_data: groupby size, sort_values, head(10), number_one_show.
ProcTopShows ==
    /\ top1 = <<>> /\ top2 = <<>>
    /\ \E order \in SortedOrders(ShowCounts) :
         LET top_shows == TopShows(order, ShowCounts)
         IN  top2' = <<[top_shows |-> top_shows,
                        number_one_show |-> top_shows[1].title,
                        number_one_count |-> top_shows[1].count]>>
    /\ UNCHANGED <<table, top1, titleVars, statVars, streakVars, persVars>>

TopNext == CalcTopShows \/ ProcTopShows

SpecTop == TopInit /\ [][TopNext]_vars

(***************************************************************************)
(* The personality rules applied to one stats dictionary, with every       *)
(* number on either side of the thresholds the rules compare it with.      *)
(***************************************************************************)
DictOf(order, values) == [k \in Range(order) |->
    values[CHOOSE i \in 1..Len(order) : order[i] = k]]

\* Night share 0, a half, all.
SampleTimeCategories ==
    {DictOf(time_order, v) : v \in {<<0, 0, 0, 0>>, <<1, 0, 0, 1>>, <<0, 0, 0, 1>>}}

\* Weekend share 0, two fifths, a half.
SampleDayOfWeek ==
    {DictOf(dow_order, v) :
        v \in {<<0, 0, 0, 0, 0, 0, 0>>, <<3, 0, 0, 0, 0, 1, 1>>, <<1, 0, 0, 0, 0, 0, 1>>}}

SampleStats ==
    [estimated_hours  : {2000, 2001, 5000, 5001},
     binge_sessions   : {40, 41, 50, 51},
     peak_time        : {Morning, Evening, NightOwl},
     longest_streak   : {20, 21, 30, 31},
     unique_shows     : {100, 101},
     movies_watched   : {150, 151},
     episodes_watched : {400, 401},
     active_days      : {200, 201},
     time_categories  : SampleTimeCategories,
     day_of_week      : SampleDayOfWeek]

PersInit ==
    /\ pstats \in SampleStats
    /\ pers1 = <<>>
    /\ pers2 = <<>>
    /\ TitleIdle /\ StatIdle /\ StreakIdle /\ TopIdle

CalcPersonality ==
    /\ pers1 = <<>>
    /\ pers1' = <<calc_determine_personality(pstats)>>
    /\ UNCHANGED <<pstats, pers2, titleVars, statVars, streakVars, topVars>>

ProcPersonality ==
    /\ pers2 = <<>>
    /\ pers2' = <<proc_determine_personality(pstats)>>
    /\ UNCHANGED <<pstats, pers1, titleVars, statVars, streakVars, topVars>>

PersNext == CalcPersonality \/ ProcPersonality

SpecPers == PersInit /\ [][PersNext]_vars

(***************************************************************************)
(* The hours of the day: files of a few views, one at each hour of Friday  *)
(* 2025-01-31 and one on Saturday 2025-02-01, through both programs.       *)
(***************************************************************************)
MaxViews == 2

HourRows ==
    {[title |-> <<"a">>, ts |-> [year |-> 2025, month |-> 1, day |-> 31, hour |-> h],
      dur |-> OneMinute, supp |-> <<>>] : h \in 0..23}
    \cup {[title |-> <<"a">>, ts |-> [year |-> 2025, month |-> 2, day |-> 1, hour |-> 12],
            dur |-> OneMinute, supp |-> <<>>]}

DayInit ==
    /\ input = "file"
    /\ rows = EmptyBag
    /\ out1 = <<>> /\ out2 = <<>>
    /\ saved1 = <<>> /\ saved2 = <<>>
    /\ TitleIdle /\ StreakIdle /\ TopIdle /\ PersIdle

\* One more row of the CSV.
ReadView(r) ==
    /\ out1 = <<>> /\ out2 = <<>>
    /\ Size(rows) < MaxViews
    /\ rows' = rows (+) SetToBag({r})
    /\ UNCHANGED <<input, out1, out2, saved1, saved2,
                   titleVars, streakVars, topVars, persVars>>

DayNext ==
    \/ \E r \in HourRows : ReadView(r)
    \/ CalculateStats
    \/ ProcessNetflixData

SpecDay == DayInit /\ [][DayNext]_vars

(***************************************************************************)
(* Claims about the title normalizers.                                     *)
(***************************************************************************)
\* The part of s between its first and its last non-blank token.
Trimmed(s) ==
    LET ns == {i \in 1..Len(s) : ~IsSpace(s[i])}
    IN  IF ns = {} THEN <<>> ELSE SubSeq(s, Min(ns), Max(ns))

Colons(s) == {i \in 1..Len(s) : s[i] = ":"}

\* The trimmed portion of s before its first colon (all of s without one).
NameBeforeFirstColon(s) ==
    IF Colons(s) = {} THEN Trimmed(s) ELSE Trimmed(SubSeq(s, 1, Min(Colons(s)) - 1))

AllSpaces(s, a, b) == \A x \in a..b : IsSpace(s[x])

\* The colon at i introduces "Season <digit>": only blanks lie between the
\* colon and the word, and between the word and the digit at k.
IntroducesSeason(s, i, k) ==
    /\ s[i] = ":"
    /\ \E j \in (i + 1)..(k - 1) :
          /\ s[j] = "Season"
          /\ AllSpaces(s, i + 1, j - 1)
          /\ AllSpaces(s, j + 1, k - 1)
    /\ IsDigit(s[k])

\* The colons, after at least one token, that introduce a season number.
SeasonColons(s) ==
    {i \in 2..Len(s) : \E k \in (i + 2)..Len(s) : IntroducesSeason(s, i, k)}

HasClipOrTeaser(s) == \E i \in 1..Len(s) : s[i] \in {"Clip", "Teaser"}

\* The title up to its first "_hook" or "_primary".
BeforeHook(s) ==
    LET at == {i \in 1..Len(s) : s[i] \in {"_hook", "_primary"}}
    IN  IF at = {} THEN s ELSE SubSeq(s, 1, Min(at) - 1)

\* C5 as claimed: both normalizers return the trimmed portion of the title
\* before its first colon, for every title.
C5_AsClaimed ==
    /\ norm1 # <<>> => norm1[1].show = NameBeforeFirstColon(title)
    /\ norm2 # <<>> => norm2[1].show = NameBeforeFirstColon(title)

\* C5 amended: extract_show_name returns the trimmed portion before the first
\* colon; extract_show_info returns the trimmed portion before the first
\* colon that introduces "Season N" for an episode title, the whole trimmed
\* title, up to its first "_hook" or "_primary", for a title with neither
\* ": Season" nor ": Episode" (and no clip or teaser prefix), and the trimmed
\* portion before the first colon for the remaining titles that contain
\* ": Season" or ": Episode".
C5_ShowName ==
    /\ norm1 # <<>> => norm1[1].show = NameBeforeFirstColon(title)
    /\ norm2 # <<>> =>
         IF SeasonColons(title) # {}
         THEN norm2[1].show = Trimmed(SubSeq(title, 1, Min(SeasonColons(title)) - 1))
         ELSE IF \E i \in 1..(Len(title) - 2) :
                    /\ title[i] = ":" /\ title[i + 1] = " "
                    /\ title[i + 2] \in {"Season", "Episode"}
         THEN norm2[1].show = NameBeforeFirstColon(title)
         ELSE ~HasClipOrTeaser(title) => norm2[1].show = Trimmed(BeforeHook(title))

\* An episode title whose name itself contains a colon has been normalized
\* by both variants.
C5_Witness ==
    /\ norm1 # <<>> /\ norm2 # <<>>
    /\ norm2[1].is_episode
    /\ Colons(norm2[1].show) # {}
    /\ norm1[1].show # norm2[1].show

\* The decimal value of a run of digits.
RECURSIVE Pow10(_)
Pow10(n) == IF n = 0 THEN 1 ELSE 10 * Pow10(n - 1)

RECURSIVE PlaceSum(_, _)
PlaceSum(ds, i) ==
    IF i > Len(ds) THEN 0
    ELSE DigitVal[ds[i]] * Pow10(Len(ds) - i) + PlaceSum(ds, i + 1)

Value(ds) == PlaceSum(ds, 1)

AllDigits(s, a, b) == \A x \in a..b : IsDigit(s[x])

\* "Show: Season N ...": the title's first colon, after a non-empty name,
\* introduces the season number.
EpisodeForm(s) == Colons(s) # {} /\ Min(Colons(s)) \in SeasonColons(s)

\* The first and the last digit of N in a title of that form.
SeasonFirst(s) == Min({k \in 1..Len(s) : IntroducesSeason(s, Min(Colons(s)), k)})

SeasonLast(s) ==
    Max({e \in SeasonFirst(s)..Len(s) : AllDigits(s, SeasonFirst(s), e)})

\* The positions d at which a closing "(Episode M)" has the first digit of M.
EpisodeFirst(s) ==
    {d \in (SeasonLast(s) + 3)..(Len(s) - 1) :
        /\ s[Len(s)] = ")"
        /\ AllDigits(s, d, Len(s) - 1)
        /\ \E j \in (SeasonLast(s) + 1)..(d - 2) :
              /\ s[j] = "(" /\ s[j + 1] = "Episode"
              /\ AllSpaces(s, j + 2, d - 1)}

C6_EpisodeCase ==
    EpisodeForm(title) =>
        LET name == Trimmed(SubSeq(title, 1, Min(Colons(title)) - 1))
            N    == Value(SubSeq(title, SeasonFirst(title), SeasonLast(title)))
        IN  /\ norm1 # <<>> => norm1[1] = [show |-> name, is_episode |-> TRUE]
            /\ norm2 # <<>> =>
                 /\ norm2[1].show = name
                 /\ norm2[1].is_episode
                 /\ norm2[1].season = <<N>>
                 /\ norm2[1].episode =
                       IF EpisodeFirst(title) = {} THEN <<>>
                       ELSE <<Value(SubSeq(title, Min(EpisodeFirst(title)), Len(title) - 1))>>

\* C6 as claimed: an episode title gives show, season and episode, and a
\* title without a colon is a movie named by the whole trimmed title.
C6_AsClaimed ==
    /\ C6_EpisodeCase
    /\ Colons(title) = {} =>
         /\ norm1 # <<>> => norm1[1] = [show |-> Trimmed(title), is_episode |-> FALSE]
         /\ norm2 # <<>> =>
              norm2[1] = [show |-> Trimmed(title), season |-> <<>>,
                          episode |-> <<>>, is_episode |-> FALSE]

\* C6 amended: as claimed, except that extract_show_info names a title
\* without a colon by the trimmed title up to its first "_hook" or
\* "_primary" (the whole trimmed title when it has neither).
C6_Normalized ==
    /\ C6_EpisodeCase
    /\ Colons(title) = {} =>
         /\ norm1 # <<>> => norm1[1] = [show |-> Trimmed(title), is_episode |-> FALSE]
         /\ norm2 # <<>> =>
              norm2[1] = [show |-> Trimmed(BeforeHook(title)), season |-> <<>>,
                          episode |-> <<>>, is_episode |-> FALSE]

\* "a: Season 4 (Episode 1)" has been normalized by both variants.
C6_Witness ==
    /\ title = <<"a", ":", " ", "Season", " ", "4", " ", "(", "Episode", " ", "1", ")">>
    /\ norm1 = <<[show |-> <<"a">>, is_episode |-> TRUE]>>
    /\ norm2 = <<[show |-> <<"a">>, season |-> <<4>>, episode |-> <<1>>,
                  is_episode |-> TRUE]>>

\* C7 as claimed: every normalized record's show name is non-empty.
C7_AsClaimed ==
    /\ norm1 # <<>> => Len(norm1[1].show) >= 1
    /\ norm2 # <<>> => Len(norm2[1].show) >= 1

(***************************************************************************)
(* The statistics of a file (Spec).                                        *)
(***************************************************************************)
MonthNames ==
    {"January", "February", "March", "April", "May", "June", "July",
     "August", "September", "October", "November", "December"}

DayNames ==
    {"Monday", "Tuesday", "Wednesday", "Thursday", "Friday", "Saturday", "Sunday"}

BucketLabels ==
    {"Morning (6am-12pm)", "Afternoon (12pm-6pm)", "Evening (6pm-10pm)",
     "Night Owl (10pm-6am)"}

Produced(out) == out # <<>> /\ out[1].kind = "stats"

\* The records of the file a run of calculate_stats for `year` counts.
InYear(year) == {r \in DOMAIN rows : r.ts.year = year}

\* The records of the file process_netflix_data counts: of 2025, lasting a
\* minute or more, not supplemental.
Kept == {r \in DOMAIN rows :
            r.ts.year = 2025 /\ parse_duration(r.dur) >= 60 /\ r.supp = <<>>}

\* The three breakdowns of `st` have the canonical keys, and a zero exactly
\* at the keys no record of `data` has.
ZeroFilled(st, data) ==
    /\ DOMAIN st.monthly_breakdown = MonthNames
    /\ DOMAIN st.day_of_week = DayNames
    /\ DOMAIN st.time_categories = BucketLabels
    /\ \A m \in MonthNames :
         st.monthly_breakdown[m] = 0 <=> \A r \in data : MonthNameOf(r.ts) # m
    /\ \A d \in DayNames :
         st.day_of_week[d] = 0 <=> \A r \in data : DayNameOf(r.ts) # d
    /\ \A b \in BucketLabels :
         st.time_categories[b] = 0 <=> \A r \in data : get_time_category(r.ts.hour) # b

\* C1: whenever calculate_stats or process_netflix_data produces a stats
\* object, monthly_breakdown has exactly the 12 month names as keys,
\* day_of_week exactly the 7 weekday names and time_categories exactly the 4
\* bucket labels, with count 0 at every key no record of the data has.
C1_ZeroFilled ==
    /\ Produced(out1) => ZeroFilled(out1[1].stats, InYear(out1[1].stats.year))
    /\ Produced(out2) => ZeroFilled(out2[1].stats, Kept)

\* Both variants produced stats from a file all of January mornings and
\* February nights, one of whose records process_netflix_data dropped.
C1_Witness ==
    /\ Produced(out1) /\ Produced(out2)
    /\ out1[1].stats.monthly_breakdown["January"] > 0
    /\ out1[1].stats.monthly_breakdown["March"] = 0
    /\ out2[1].stats.time_categories["Afternoon (12pm-6pm)"] = 0
    /\ out2[1].stats.day_of_week["Saturday"] = 0
    /\ out2[1].stats.total_titles_watched < out1[1].stats.total_titles_watched

(***************************************************************************)
(* Streaks (SpecStreak).                                                   *)
(***************************************************************************)
\* The runs of consecutive days all in D.
Runs(D) == {<<a, b>> \in D \X D : a <= b /\ \A d \in a..b : d \in D}

LongestRun(D) == Max({run[2] - run[1] + 1 : run \in Runs(D)})

\* C2: for every non-empty set of distinct dates, longest_streak is the
\* length of the longest run of consecutive calendar dates in it, in both
\* variants, also when the longest run is the last or the set has one date.
C2_LongestStreak ==
    /\ streak1 # <<>> => streak1[1] = LongestRun(dates)
    /\ streak2 # <<>> => streak2[1] = LongestRun(dates)

\* Days 1, 2, 3 and 5 give 3 in both variants.
C2_Witness ==
    /\ dates = {1, 2, 3, 5}
    /\ streak1 = <<3>>
    /\ streak2 = <<3>>

\* The longest run is the last one of the sequence.
C2_WitnessLast ==
    /\ dates = {1, 3, 4, 5}
    /\ streak1 = <<3>>
    /\ streak2 = <<3>>

(***************************************************************************)
(* Binges (Spec).                                                          *)
(***************************************************************************)
\* How many records of `data`, each counted as often as the file has it,
\* have key k.
CountOf(data, key, k) ==
    SumOver([r \in DOMAIN rows |-> IF r \in data /\ key[r] = k THEN rows[r] ELSE 0],
            DOMAIN rows)

Keys(data, key) == {key[r] : r \in data}

DayAndName1 == [r \in DOMAIN rows |-> <<DateOf(r.ts), extract_show_name(r.title)>>]

DayAndName2 ==
    [r \in DOMAIN rows |-> <<DateOf(r.ts), extract_show_info(r.title).show>>]

Episodes1(data) == {r \in data : IsEpisodeColumn(r.title)}

Episodes2(data) == {r \in data : extract_show_info(r.title).is_episode}

LargestGroup(data, key) ==
    IF data = {} THEN 0 ELSE Max({CountOf(data, key, k) : k \in Keys(data, key)})

GroupsReaching(n, data, key) == {k \in Keys(data, key) : CountOf(data, key, k) >= n}

\* The binge statistics as the claim has them, over the groups of `data`:
\* the sessions are the groups reaching `threshold`, biggest_binge is the
\* size of the largest group, whose date and show are recorded.
BingeAsClaimed(st, threshold, data, key, show) ==
    /\ st.binge_sessions = Cardinality(GroupsReaching(threshold, data, key))
    /\ st.biggest_binge = LargestGroup(data, key)
    /\ data # {} =>
         /\ "biggest_binge_date" \in DOMAIN st
         /\ "biggest_binge_show" \in DOMAIN st
         /\ \E k \in Keys(data, key) :
              /\ CountOf(data, key, k) = st.biggest_binge
              /\ st.biggest_binge_date = <<k[1]>>
              /\ show = k[2]

ShowOf1(st) == IF st.biggest_binge_show = <<>> THEN <<>> ELSE st.biggest_binge_show[1]

ShowOf2(st) == st.biggest_binge_show

Binge1(st) ==
    LET data   == InYear(st.year)
        binges == GroupsReaching(3, data, DayAndName1)
    IN  /\ st.binge_sessions = Cardinality(binges)
        /\ IF binges = {}
           THEN /\ st.biggest_binge = 0
                /\ st.biggest_binge_show = <<>>
                /\ st.biggest_binge_date = <<>>
           ELSE /\ st.biggest_binge = LargestGroup(data, DayAndName1)
                /\ \E k \in binges :
                     /\ CountOf(data, DayAndName1, k) = st.biggest_binge
                     /\ st.biggest_binge_date = <<k[1]>>
                     /\ st.biggest_binge_show = <<k[2]>>

\* process_netflix_data: the groups are over the episode records kept;
\* biggest_binge is the size of the largest group, whose show is recorded
\* when that size reaches 4 and blank otherwise; no date is recorded.
Binge2(st) ==
    LET data == Episodes2(Kept)
    IN  /\ st.binge_sessions = Cardinality(GroupsReaching(4, data, DayAndName2))
        /\ st.biggest_binge = LargestGroup(data, DayAndName2)
        /\ "biggest_binge_date" \notin DOMAIN st
        /\ IF st.biggest_binge >= 4
           THEN \E k \in Keys(data, DayAndName2) :
                  /\ CountOf(data, DayAndName2, k) = st.biggest_binge
                  /\ st.biggest_binge_show = k[2]
           ELSE st.biggest_binge_show = <<>>

BingeOver(st, threshold, floor, data, key) ==
    /\ st.binge_sessions = Cardinality(GroupsReaching(threshold, data, key))
    /\ st.biggest_binge =
         IF LargestGroup(data, key) >= floor THEN LargestGroup(data, key) ELSE 0

\* C4 as claimed: in both variants a record that is not an episode
\* contributes to no (date, show) group counted for binge_sessions or
\* biggest_binge, so the two are what the episode records alone give.
C4_AsClaimed ==
    /\ Produced(out1) =>
         BingeOver(out1[1].stats, 3, 3, Episodes1(InYear(out1[1].stats.year)), DayAndName1)
    /\ Produced(out2) =>
         BingeOver(out2[1].stats, 4, 0, Episodes2(Kept), DayAndName2)

\* process_netflix_data alone meets C4.
C4_ProcEpisodesOnly ==
    Produced(out2) => BingeOver(out2[1].stats, 4, 0, Episodes2(Kept), DayAndName2)

\* The records a minimum-duration filter keeps: a minute or more, not
\* supplemental.
Passing == {r \in DOMAIN rows : parse_duration(r.dur) >= 60 /\ r.supp = <<>>}

Days(data) == {DateOf(r.ts) : r \in data}

\* longest_streak, binge_sessions, biggest_binge and active_days of `st` are
\* what the records of `data` alone give, with the groups of `groups`.
OnlyOver(st, data, threshold, floor, groups, key) ==
    /\ st.active_days = Cardinality(Days(data))
    /\ Days(data) # {} => st.longest_streak = LongestRun(Days(data))
    /\ BingeOver(st, threshold, floor, groups, key)

\* C10 as claimed: in either variant longest_streak, binge_sessions,
\* biggest_binge and active_days are computed only over the records passing
\* the minimum-duration filter: a record below 60 seconds, with a malformed
\* duration, or flagged supplemental changes none of them.
C10_AsClaimed ==
    /\ Produced(out1) =>
         LET data == Passing \cap InYear(out1[1].stats.year)
         IN  OnlyOver(out1[1].stats, data, 3, 3, data, DayAndName1)
    /\ Produced(out2) =>
         OnlyOver(out2[1].stats, Kept, 4, 0, Episodes2(Kept), DayAndName2)

\* process_netflix_data alone meets C10.
C10_ProcFiltered ==
    Produced(out2) => OnlyOver(out2[1].stats, Kept, 4, 0, Episodes2(Kept), DayAndName2)

(***************************************************************************)
(* Personality (SpecPers).                                                 *)
(***************************************************************************)
Rule(holds, type, description) ==
    [holds |-> holds, persona |-> [type |-> type, description |-> description]]

\* The rules of process_data.determine_personality, in their listed order.
\* estimated_hours is in tenths of an hour.
ListedRules1(st) ==
    <<Rule(st.estimated_hours > 500 * 10, "The Streaming Champion",
           "Netflix might as well be your second home. You have seen it ALL."),
      Rule(st.binge_sessions > 50, "The Binge Master",
           "One more episode? Make that ten. Sleep is optional when the plot thickens."),
      Rule(st.peak_time = "Night Owl (10pm-6am)", "The Night Owl",
           "The best shows come out at night. Or maybe you just lost track of time again."),
      Rule(st.longest_streak > 30, "The Devoted Streamer",
           "Rain or shine, you never miss a day. Netflix is part of your daily routine."),
      Rule(st.estimated_hours > 200 * 10, "The Enthusiast",
           "You know what you like and you are not afraid to watch it all."),
      Rule(st.peak_time = "Morning (6am-12pm)", "The Early Bird",
           "Coffee and Netflix? You start your days right.")>>

Total(counts) == SumOver(counts, DOMAIN counts)

\* The rules of process_netflix_data.determine_personality, in their listed
\* order.  A ratio over a total of 0 is 0.
ListedRules2(st) ==
    LET night   == st.time_categories["Night Owl (10pm-6am)"]
        weekend == st.day_of_week["Saturday"] + st.day_of_week["Sunday"]
    IN
    <<Rule(st.unique_shows > 100, "The Plot Twist Addict",
           "New show? Sign me up. Your watchlist is basically a buffet."),
      Rule(st.longest_streak > 20 /\ st.binge_sessions > 40, "The Marathon Runner",
           "Consistency is your middle name. Rain or shine, you show up for your shows."),
      Rule(2 * night > Total(st.time_categories), "The After Hours Explorer",
           "The world sleeps, you stream. Some stories just hit different at 2am."),
      Rule(st.binge_sessions > 50, "The Serial Chiller",
           "One episode is never enough. You don't watch shows, you experience them."),
      Rule(st.movies_watched > 150 /\ st.episodes_watched > 400, "The Couch Critic",
           "Movies, series, documentaries - you appreciate it all. A true connoisseur."),
      Rule(10 * weekend > 4 * Total(st.day_of_week), "The Weekend Wanderer",
           "Saturdays and Sundays are sacred. Your couch knows what's up."),
      Rule(st.active_days > 200, "The Steady Streamer",
           "You've made streaming a lifestyle. Netflix is basically a roommate at this point.")>>

Holding(rules) == {i \in 1..Len(rules) : rules[i].holds}

\* The persona of the earliest rule that holds, else the default.
FirstMatch(rules, default) ==
    IF Holding(rules) = {} THEN default ELSE rules[Min(Holding(rules))].persona

IsCasualViewer(p) == p.type = "The Casual Viewer"

\* C8: determine_personality returns the label and description of the
\* earliest rule, in the listed order, whose predicate holds, however many
\* later rules hold too, and the default Casual Viewer exactly when no
\* predicate holds, in both variants.
C8_FirstMatch ==
    /\ pers1 # <<>> =>
         /\ pers1[1] = FirstMatch(ListedRules1(pstats),
                [type |-> "The Casual Viewer",
                 description |-> "You enjoy Netflix at a comfortable pace."])
         /\ IsCasualViewer(pers1[1]) <=> Holding(ListedRules1(pstats)) = {}
    /\ pers2 # <<>> =>
         /\ pers2[1] = FirstMatch(ListedRules2(pstats),
                [type |-> "The Casual Viewer",
                 description |-> "You watch on your own terms. No algorithm can define you."])
         /\ IsCasualViewer(pers2[1]) <=> Holding(ListedRules2(pstats)) = {}

\* Hours above 500 and binge sessions above 50 resolve to the rule listed
\* first; in the other variant three rules hold and the earliest wins.
C8_Witness ==
    /\ pers1 # <<>> /\ pers2 # <<>>
    /\ pstats.estimated_hours > 5000 /\ pstats.binge_sessions > 50
    /\ pers1[1].type = "The Streaming Champion"
    /\ Cardinality(Holding(ListedRules2(pstats))) >= 3
    /\ pers2[1].type = "The Marathon Runner"

\* No rule holds in either variant.
C8_WitnessDefault ==
    /\ pers1 # <<>> /\ pers2 # <<>>
    /\ IsCasualViewer(pers1[1]) /\ IsCasualViewer(pers2[1])

(***************************************************************************)
(* Top shows (SpecTop).                                                    *)
(***************************************************************************)
Shows == 1..Len(table)

Listed(top) == {top[i].title : i \in 1..Len(top)}

\* top_shows of `t` ranks the shows of the column by count.
Ranked(t) ==
    LET top == t.top_shows
    IN  /\ Len(top) <= 10
        /\ Len(top) = Min({10, Len(table)})
        /\ \A i \in 1..Len(top) : top[i].title \in Shows /\ top[i].count = table[top[i].title]
        /\ \A i, j \in 1..Len(top) :
             i < j => top[i].title # top[j].title /\ top[i].count >= top[j].count
        /\ \A s \in Shows \ Listed(top) : table[s] <= top[Len(top)].count
        /\ t.number_one_show = top[1].title
        /\ t.number_one_count = top[1].count

\* Shows with equal counts are in the order they were first met: show i is
\* the i-th show met.
TiesAsMet(t) ==
    \A i, j \in 1..Len(t.top_shows) :
        i < j /\ t.top_shows[i].count = t.top_shows[j].count
            => t.top_shows[i].title < t.top_shows[j].title

C9_WitnessProc ==
    /\ top2 # <<>>
    /\ Len(table) > 10
    /\ Len(top2[1].top_shows) = 10
    /\ top2[1].top_shows[9].count = top2[1].top_shows[10].count

(***************************************************************************)
(* Peaks (Spec).                                                           *)
(***************************************************************************)
CanonicalMonths ==
    <<"January", "February", "March", "April", "May", "June", "July",
      "August", "September", "October", "November", "December">>

CanonicalDays ==
    <<"Monday", "Tuesday", "Wednesday", "Thursday", "Friday", "Saturday", "Sunday">>

CanonicalBuckets ==
    <<"Morning (6am-12pm)", "Afternoon (12pm-6pm)", "Evening (6pm-10pm)",
      "Night Owl (10pm-6am)">>

\* `peak` is a key of `counts` with the largest count, and every key before
\* it in `canonical` has a smaller one.
IsFirstArgMax(peak, counts, canonical) ==
    \E i \in 1..Len(canonical) :
        /\ canonical[i] = peak
        /\ \A j \in 1..Len(canonical) : counts[canonical[j]] <= counts[peak]
        /\ \A j \in 1..(i - 1) : counts[canonical[j]] < counts[peak]

PeaksOf(st) ==
    /\ IsFirstArgMax(st.peak_month, st.monthly_breakdown, CanonicalMonths)
    /\ st.peak_month_count = st.monthly_breakdown[st.peak_month]
    /\ IsFirstArgMax(st.favorite_day, st.day_of_week, CanonicalDays)
    /\ st.favorite_day_count = st.day_of_week[st.favorite_day]
    /\ IsFirstArgMax(st.peak_time, st.time_categories, CanonicalBuckets)

\* C11: in both variants peak_month, favorite_day and peak_time are each a
\* key with the maximum count of their breakdown, the earliest in canonical
\* order when several keys share the maximum, and peak_month_count and
\* favorite_day_count equal that maximum.
C11_PeakFirstKey ==
    /\ Produced(out1) => PeaksOf(out1[1].stats)
    /\ Produced(out2) => PeaksOf(out2[1].stats)

TiesBrokenEarly(st) ==
    /\ st.monthly_breakdown["January"] = st.monthly_breakdown["February"]
    /\ st.peak_month = "January"
    /\ st.day_of_week["Friday"] = st.day_of_week["Saturday"]
    /\ st.favorite_day = "Friday"
    /\ st.time_categories["Morning (6am-12pm)"] = st.time_categories["Night Owl (10pm-6am)"]
    /\ st.peak_time = "Morning (6am-12pm)"

\* Both variants broke a tie between January and February, between Friday
\* and Saturday and between morning and night by the earlier key.
C11_Witness ==
    /\ Produced(out1) /\ Produced(out2)
    /\ TiesBrokenEarly(out1[1].stats)
    /\ TiesBrokenEarly(out2[1].stats)

\* A later key alone has the maximum and is the peak.
C11_WitnessLater ==
    /\ Produced(out1) /\ Produced(out2)
    /\ out1[1].stats.peak_month = "February"
    /\ out2[1].stats.peak_month = "February"
    /\ out2[1].stats.monthly_breakdown["January"] > 0


\* ------------------------------------------------------------------------
\* Missing input (Spec)
\* ------------------------------------------------------------------------

\* The run ended on the message msg, computing nothing.
EndedOnMessage(out, msg) ==
    /\ out[1].kind = "no_input"
    /\ \E i \in 1..Len(out[1].printed) : out[1].printed[i] = msg

C12_WitnessSaved ==
    /\ input = "file"
    /\ Produced(out1) /\ saved1 = out1
    /\ Produced(out2) /\ saved2 = out2

\* The file was there, yet a run raised and wrote nothing.
C12_WitnessRaised ==
    /\ input = "file"
    /\ out2 # <<>> /\ out2[1].kind = "raised" /\ saved2 = <<>>


\* ------------------------------------------------------------------------
\* Time buckets (SpecDay)
\* ------------------------------------------------------------------------

\* The hours of each bucket as documented, in the order of CanonicalBuckets.
BucketHours == <<6..11, 12..17, 18..21, (22..23) \cup (0..5)>>

\* The number of records of `data`.
Records(data) == CountOf(data, [r \in DOMAIN rows |-> TRUE], TRUE)

\* Each bucket of `st` counts the records of `data` at its hours, and the
\* three breakdowns each add up to the number of records counted.
Partitioned(st, data) ==
    /\ \A b \in 1..4 :
         st.time_categories[CanonicalBuckets[b]] =
             CountOf(data, [r \in DOMAIN rows |-> r.ts.hour \in BucketHours[b]], TRUE)
    /\ st.total_titles_watched = Records(data)
    /\ Total(st.time_categories) = st.total_titles_watched
    /\ Total(st.monthly_breakdown) = st.total_titles_watched
    /\ Total(st.day_of_week) = st.total_titles_watched

\* C13: the four time buckets (Morning 6..11, Afternoon 12..17, Evening
\* 18..21, Night Owl 22..23 and 0..5) partition the hours 0..23, each bucket
\* of a produced statistics object counts the records at its hours, and its
\* time_categories, monthly_breakdown and day_of_week each add up to
\* total_titles_watched.
C13_BucketsPartition ==
    /\ \A h \in 0..23 : Cardinality({b \in 1..4 : h \in BucketHours[b]}) = 1
    /\ \A h \in 0..23 : \A b \in 1..4 :
         get_time_category(h) = CanonicalBuckets[b] <=> h \in BucketHours[b]
    /\ Produced(out1) => Partitioned(out1[1].stats, InYear(2025))
    /\ Produced(out2) => Partitioned(out2[1].stats, Kept)

\* Both programs have counted a file of two views, at 05h and at 22h: two
\* records in Night Owl.
C13_Witness ==
    /\ Produced(out1) /\ Produced(out2)
    /\ {r.ts.hour : r \in DOMAIN rows} = {5, 22}
    /\ out1[1].stats.time_categories["Night Owl (10pm-6am)"] = 2
    /\ out2[1].stats.time_categories["Night Owl (10pm-6am)"] = 2
    /\ out1[1].stats.total_titles_watched = 2
    /\ out2[1].stats.total_titles_watched = 2

\* Views at 21h and at 12h of the next day: Evening and Afternoon, two
\* months, two weekdays.
C13_WitnessTwoDays ==
    /\ Produced(out1) /\ Produced(out2)
    /\ {<<r.ts.day, r.ts.hour>> : r \in DOMAIN rows} = {<<31, 21>>, <<1, 12>>}
    /\ out1[1].stats.time_categories["Evening (6pm-10pm)"] = 1
    /\ out2[1].stats.time_categories["Afternoon (12pm-6pm)"] = 1
    /\ out1[1].stats.monthly_breakdown["February"] = 1
    /\ out2[1].stats.day_of_week["Friday"] = 1

====
